---------------------------- MODULE Spec2Model ----------------------------
(***************************************************************************)
(* Model of the notification fan-out of the Sentinel-Compass dashboard:    *)
(* the emergency communication service (initiateEvacuation,                *)
(* sendRegionAlert, requestEmergencyResources, signalAllClear) and the     *)
(* EmergencyActions component's handleEmergencyAction, which records each  *)
(* dispatch in the session's notificationHistory.                          *)
(*                                                                         *)
(* JavaScript runs one task at a time: a handler runs without interruption *)
(* until its next await, and the continuation of an await runs as a unit   *)
(* when the awaited promise settles.  Each action below is one such unit.  *)
(***************************************************************************)
EXTENDS Integers, Sequences, FiniteSets

(***************************************************************************)
(* Bounds of the model.                                                    *)
(***************************************************************************)
\* Number of user-triggered emergency actions in one run.
MaxDispatches == 2
\* Date.now() at the start of the run and the last value it may reach.
ClockStart == 999
MaxClock == 1000
\* Number of alerts handed to the alert panel.
MaxAlerts == 3

(***************************************************************************)
(* The recipient directory (defaultEmergencyConfig).                       *)
(***************************************************************************)
\* A phone number, e-mail address or device identifier is kept as
\* << first character, rest >>, so that startsWith("+") is computed from the
\* identifier itself.
Str(first, rest) == << first, rest >>

Contact(n, r, p, e) == [name |-> n, role |-> r, phoneNumber |-> p, email |-> e]

evacuationTeam ==
  [teamName |-> "Evacuation Response",
   teamHead |-> Contact("Sarah Johnson", "Evacuation Director",
                        Str("+", "1-555-123-4567"), Str("s", "johnson@emergency.org")),
   members  |-> << Contact("Mike Roberts", "Field Coordinator",
                           Str("+", "1-555-234-5678"), Str("m", "roberts@emergency.org")),
                   Contact("Lisa Chen", "Transportation Lead",
                           Str("+", "1-555-345-6789"), Str("l", "chen@emergency.org")) >>]

alertTeam ==
  [teamName |-> "Public Alert System",
   teamHead |-> Contact("David Williams", "Alert System Director",
                        Str("+", "1-555-456-7890"), Str("d", "williams@emergency.org")),
   members  |-> << Contact("Carlos Rodriguez", "Communications Specialist",
                           Str("+", "1-555-567-8901"), Str("c", "rodriguez@emergency.org")),
                   Contact("Aisha Patel", "Media Relations",
                           Str("+", "1-555-678-9012"), Str("a", "patel@emergency.org")) >>]

resourcesTeam ==
  [teamName |-> "Resource Management",
   teamHead |-> Contact("Robert Kim", "Resource Director",
                        Str("+", "1-555-789-0123"), Str("r", "kim@emergency.org")),
   members  |-> << Contact("Jane Martinez", "Supply Chain Manager",
                           Str("+", "1-555-890-1234"), Str("j", "martinez@emergency.org")),
                   Contact("Sam Taylor", "Equipment Coordinator",
                           Str("+", "1-555-901-2345"), Str("s", "taylor@emergency.org")) >>]

allClearTeam ==
  [teamName |-> "All Clear Operations",
   teamHead |-> Contact("Emma Wilson", "Operations Director",
                        Str("+", "1-555-012-3456"), Str("e", "wilson@emergency.org")),
   members  |-> << Contact("Thomas Brown", "Safety Inspector",
                           Str("+", "1-555-123-4567"), Str("t", "brown@emergency.org")),
                   Contact("Nina Garcia", "Community Liaison",
                           Str("+", "1-555-234-5678"), Str("n", "garcia@emergency.org")) >>]

regionDevices ==
  << Str("+", "1-555-111-2222"),
     Str("+", "1-555-333-4444"),
     Str("l", "aptop-id-12345") >>

defaultEmergencyConfig ==
  [evacuationTeam |-> evacuationTeam,
   alertTeam      |-> alertTeam,
   resourcesTeam  |-> resourcesTeam,
   allClearTeam   |-> allClearTeam,
   regionDevices  |-> regionDevices]

\* Variant: any non-empty identifier is taken for a phone number.
StartsWithPlus_NonEmpty(device) == Len(device) > 0

\* String.prototype.startsWith("+") on a device identifier.
StartsWithPlus(device) == Len(device) > 0 /\ device[1] = "+"

(***************************************************************************)
(* The channel senders.  A send is the call of one of sendSMS, sendEmail,  *)
(* sendPushNotification; it is in flight until its promise settles.        *)
(* Texts built with template literals are kept as the tuple of their       *)
(* parts.                                                                  *)
(***************************************************************************)
sendSMS(phoneNumber, message) ==
  [channel |-> "SMS", to |-> phoneNumber, subject |-> << >>, message |-> message]

sendEmail(email, subject, message) ==
  [channel |-> "Email", to |-> email, subject |-> subject, message |-> message]

sendPushNotification(deviceId, title, message) ==
  [channel |-> "Push", to |-> deviceId, subject |-> title, message |-> message]

\* The promise of a send is a Promise<boolean>: it resolves to true or to
\* false (SendResolved, LastSendResolved below), or it rejects (SendThrew).
\* The senders of the repository are stand-ins that always resolve to true;
\* the model lets a sender do whatever its signature allows.


(***************************************************************************)
(* The service functions.  Each is a straight line of awaited sends inside *)
(* one try block; the value below is the sequence of sends in the order    *)
(* the function issues them when none of them throws.                      *)
(***************************************************************************)
RECURSIVE NotifyMembers(_, _, _)
\* Variant: the e-mail of a member goes out before the SMS.
NotifyMembers_EmailFirst(members, emailSubject, message) ==
  IF members = << >> THEN << >>
  ELSE << sendEmail(Head(members).email, emailSubject, message),
          sendSMS(Head(members).phoneNumber, message) >>
       \o NotifyMembers(Tail(members), emailSubject, message)

\* for (const member of team.members) { await sendSMS; await sendEmail }
NotifyMembers(members, emailSubject, message) ==
  IF members = << >> THEN << >>
  ELSE << sendSMS(Head(members).phoneNumber, message),
          sendEmail(Head(members).email, emailSubject, message) >>
       \o NotifyMembers(Tail(members), emailSubject, message)

\* The team head first, then the members in their declared order.
NotifyTeam(team, emailSubject, message) ==
  << sendSMS(team.teamHead.phoneNumber, message),
     sendEmail(team.teamHead.email, emailSubject, message) >>
  \o NotifyMembers(team.members, emailSubject, message)

RECURSIVE NotifyDevices(_, _, _)
\* for (const device of config.regionDevices) { SMS if "+..." else Push }
NotifyDevices(devices, title, message) ==
  IF devices = << >> THEN << >>
  ELSE << IF StartsWithPlus(Head(devices))
          THEN sendSMS(Head(devices), message)
          ELSE sendPushNotification(Head(devices), title, message) >>
       \o NotifyDevices(Tail(devices), title, message)

RECURSIVE Join(_, _)
\* Array.prototype.join(separator), as the tuple of the joined parts.
Join(list, separator) ==
  IF list = << >> THEN << >>
  ELSE IF Len(list) = 1 THEN << list[1] >>
  ELSE << list[1], separator >> \o Join(Tail(list), separator)

\* Variant: the evacuation also goes out to the region devices.
initiateEvacuation_AlsoDevices(regionName, config) ==
  LET message == << "URGENT: Evacuation required in ", regionName,
                    ". Implement evacuation protocol immediately." >>
      emailSubject == << "URGENT EVACUATION: ", regionName >>
  IN  NotifyTeam(config.evacuationTeam, emailSubject, message)
      \o NotifyDevices(config.regionDevices, << "EVACUATION" >>, message)

initiateEvacuation(regionName, config) ==
  LET message == << "URGENT: Evacuation required in ", regionName,
                    ". Implement evacuation protocol immediately." >>
      emailSubject == << "URGENT EVACUATION: ", regionName >>
  IN  NotifyTeam(config.evacuationTeam, emailSubject, message)

sendRegionAlert(regionName, alertMessage, config) ==
  LET message == << "ALERT: ", alertMessage, " in ", regionName,
                    ". Take appropriate action immediately." >>
      emailSubject == << "REGION ALERT: ", regionName >>
  IN  NotifyTeam(config.alertTeam, emailSubject, message)
      \o NotifyDevices(config.regionDevices, << "EMERGENCY ALERT" >>, message)

requestEmergencyResources(regionName, resourcesNeeded, config) ==
  LET resourceList == Join(resourcesNeeded, ", ")
      message == << "RESOURCE REQUEST: The following resources are needed in ",
                    regionName, ": " >> \o resourceList
      emailSubject == << "RESOURCE REQUEST: ", regionName >>
  IN  NotifyTeam(config.resourcesTeam, emailSubject, message)

signalAllClear(regionName, config) ==
  LET message == << "ALL CLEAR: The emergency situation in ", regionName,
                    " has been resolved. You may return to normal operations." >>
      emailSubject == << "ALL CLEAR: ", regionName >>
  IN  NotifyTeam(config.allClearTeam, emailSubject, message)
      \o NotifyDevices(config.regionDevices, << "ALL CLEAR" >>, message)

\* The try/catch of a service function: it returns true when its last send
\* has settled without a throw, and false from the catch block.
ServiceResult(threw) == IF threw THEN "false" ELSE "true"

(***************************************************************************)
(* handleEmergencyAction and the state of the EmergencyActions component.  *)
(***************************************************************************)
\* The actions of the four buttons.
Actions == {"Evacuation", "Alert", "Resources Request", "All Clear"}

\* Values typed into the "Current Region" input; the first is the initial one.
Regions == {"Downtown Metro Area", "Zone A"}

\* useState<string | null>(null) of isLoading.
null == "null"

VARIABLES
  clock,                \* Date.now()
  regionName,           \* useState("Downtown Metro Area")
  isLoading,            \* useState(null): the action whose button is disabled
  notificationHistory,  \* useState([]): NotificationRecord[], newest first
  dispatches,           \* the calls of handleEmergencyAction, in trigger order
  form,                 \* useForm(...): the values held by the prediction form
  predictionResults,    \* useState(null): << >> for null, or << plan >>
  initialAlerts,        \* the initialAlerts prop of AlertPanel
  alerts                \* useState(initialAlerts) of AlertPanel

\* The state of the dispatcher and the state of the resource prediction.
dispatchVars ==
  << clock, regionName, isLoading, notificationHistory, dispatches >>
predictionVars == << form, predictionResults >>
alertVars == << initialAlerts, alerts >>

vars == << clock, regionName, isLoading, notificationHistory, dispatches,
           form, predictionResults, initialAlerts, alerts >>

\* A value of a numeric form field: the number num/den (a JavaScript number
\* or the decimal text typed into an <input type="number">), the empty text
\* of a cleared input, or undefined for a field never filled in.
Num(n, d) == [kind |-> "number", num |-> n, den |-> d]
EmptyText == [kind |-> "empty", num |-> 0, den |-> 1]
undefined == [kind |-> "undefined", num |-> 0, den |-> 1]

\* The sample alerts of the Index page, by id: kind, place and age (the
\* message texts are left out).
AlertIds == {"1", "2", "3", "4"}
Alert(id, read) ==
  [id |-> id,
   type |-> CASE id = "1" -> "emergency"
              [] id = "2" -> "warning"
              [] id = "3" -> "info"
              [] id = "4" -> "warning",
   location |-> CASE id = "1" -> "Los Angeles, CA"
                  [] id = "2" -> "Houston, TX"
                  [] id = "3" -> "Miami, FL"
                  [] id = "4" -> "San Francisco, CA",
   timestamp |-> CASE id = "1" -> "10 minutes ago"
                   [] id = "2" -> "25 minutes ago"
                   [] id = "3" -> "1 hour ago"
                   [] id = "4" -> "3 hours ago",
   read |-> read]

\* The alerts the Index page hands to <AlertPanel initialAlerts={alerts} />.
IndexAlerts ==
  << Alert("1", FALSE), Alert("2", FALSE), Alert("3", TRUE), Alert("4", TRUE) >>

\* defaultValues of useForm; magnitude has no default.
defaultValues ==
  [disasterType |-> "flood",
   severity |-> "medium",
   populationAffected |-> Num(1000, 1),
   areaSize |-> Num(100, 1),
   magnitude |-> undefined]

RECURSIVE Digits(_)
\* Number.prototype.toString() of a non-negative integer, as its decimal digits.
Digits(n) == IF n < 10 THEN << n >> ELSE Digits(n \div 10) \o << n % 10 >>

\* const notificationId = Date.now().toString()
NotificationId(now) == Digits(now)

\* new Date().toLocaleString(): date and time of day down to the second.
ToLocaleString(now) == [seconds |-> now \div 1000]

\* newNotification.recipients of each case of the switch.
Recipients(action) ==
  CASE action = "Evacuation" ->
         << [type |-> "Team Leaders", count |-> 1],
            [type |-> "Team Members", count |-> 2] >>
    [] action = "Alert" ->
         << [type |-> "Team Leaders", count |-> 1],
            [type |-> "Team Members", count |-> 2],
            [type |-> "Regional Devices", count |-> 3] >>
    [] action = "Resources Request" ->
         << [type |-> "Resource Team Lead", count |-> 1],
            [type |-> "Resource Coordinators", count |-> 2] >>
    [] action = "All Clear" ->
         << [type |-> "All Clear Team Lead", count |-> 1],
            [type |-> "All Clear Team", count |-> 2],
            [type |-> "Regional Devices", count |-> 3] >>

\* const resourcesList of the 'Resources Request' case.
resourcesList ==
  << "Emergency Medical Supplies", "Water Purification Units", "Temporary Shelters" >>

\* The service call of each case of the switch, with the default config.
ServiceCall(action, region) ==
  CASE action = "Evacuation" ->
         initiateEvacuation(region, defaultEmergencyConfig)
    [] action = "Alert" ->
         sendRegionAlert(region, "Emergency situation in progress",
                         defaultEmergencyConfig)
    [] action = "Resources Request" ->
         requestEmergencyResources(region, resourcesList, defaultEmergencyConfig)
    [] action = "All Clear" ->
         signalAllClear(region, defaultEmergencyConfig)

\* Variant: the catch block does not write the status.
HandlerCompletion_NoCatch(result) ==
  IF result = "true"
  THEN [status |-> "success", handler |-> "returned"]
  ELSE [status |-> "pending", handler |-> "returned"]

\* The try/catch around the service call: a true result writes 'success';
\* a false result throws inside the try, and the catch writes 'error', as it
\* does for a service call that throws.  The handler itself returns.
HandlerCompletion(result) ==
  IF result = "true"
  THEN [status |-> "success", handler |-> "returned"]
  ELSE [status |-> "error", handler |-> "returned"]

\* Variant: the records whose status is written move to the front.
UpdateStatus_MoveToFront(prev, notificationId, status) ==
  LET Hit(n) == n.id = notificationId
      Written(n) == [n EXCEPT !.status = status]
      front == SelectSeq(prev, Hit)
  IN  [i \in 1..Len(front) |-> Written(front[i])]
      \o SelectSeq(prev, LAMBDA n : ~Hit(n))

\* Variant: the update also stamps the record anew.
UpdateStatus_Restamp(prev, notificationId, status) ==
  [i \in 1..Len(prev) |->
     IF prev[i].id = notificationId
     THEN [prev[i] EXCEPT !.status = status, !.timestamp = [seconds |-> 0]]
     ELSE prev[i]]

\* prev.map(n => n.id === notificationId ? { ...n, status } : n)
UpdateStatus(prev, notificationId, status) ==
  [i \in 1..Len(prev) |->
     IF prev[i].id = notificationId
     THEN [prev[i] EXCEPT !.status = status]
     ELSE prev[i]]

\* Variant: the messages are built from the region name of the moment.
Plan_CurrentRegion(f) == ServiceCall(f.action, regionName)

\* The sends the service call of frame f issues when none throws.
Plan(f) == ServiceCall(f.action, f.regionName)

Init ==
  /\ clock = ClockStart
  /\ regionName = "Downtown Metro Area"
  /\ isLoading = null
  /\ notificationHistory = << >>
  /\ dispatches = << >>
  /\ form = defaultValues
  /\ predictionResults = << >>
  /\ initialAlerts = IndexAlerts
  /\ alerts = initialAlerts

\* Time passes.
Tick ==
  /\ clock < MaxClock
  /\ clock' = clock + 1
  /\ UNCHANGED predictionVars
  /\ UNCHANGED alertVars
  /\ UNCHANGED << regionName, isLoading, notificationHistory, dispatches >>

\* onChange of the region input: setRegionName(e.target.value).
SetRegionName(value) ==
  /\ value # regionName
  /\ regionName' = value
  /\ UNCHANGED predictionVars
  /\ UNCHANGED alertVars
  /\ UNCHANGED << clock, isLoading, notificationHistory, dispatches >>

\* A click on the button of `action` (disabled while isLoading === action):
\* handleEmergencyAction runs up to its first await, that is, up to the
\* first send of the service function.  It reads the clock twice, Date.now()
\* for the id and new Date() for the timestamp, and the clock may have moved
\* on between the two reads.
Trigger(action) ==
  /\ Len(dispatches) < MaxDispatches
  /\ isLoading # action
  /\ \E later \in clock..MaxClock :
       LET notificationId == NotificationId(clock)
           newNotification ==
             [id         |-> notificationId,
              action     |-> action,
              status     |-> "pending",
              recipients |-> Recipients(action),
              timestamp  |-> ToLocaleString(later)]
           plan == ServiceCall(action, regionName)
       IN  /\ clock' = later
           /\ isLoading' = action
           /\ notificationHistory' = << newNotification >> \o notificationHistory
           /\ dispatches' = Append(dispatches,
                [action         |-> action,
                 notificationId |-> notificationId,
                 regionName     |-> regionName,
                 pc             |-> 1,
                 inflight       |-> {1},
                 sent           |-> << plan[1] >>,
                 allTrue        |-> TRUE,
                 threw          |-> FALSE,
                 result         |-> "pending",
                 handler        |-> "awaiting"])
  /\ UNCHANGED predictionVars
  /\ UNCHANGED alertVars
  /\ UNCHANGED regionName

\* The end of a dispatch: the service function has returned `result` to
\* handleEmergencyAction, which writes the terminal status, clears isLoading
\* and returns.
Complete(d, f, result) ==
  LET done == HandlerCompletion(result)
  IN  /\ notificationHistory' =
           UpdateStatus(notificationHistory, f.notificationId, done.status)
      /\ isLoading' = null
      /\ dispatches' = [dispatches EXCEPT ![d] =
           [f EXCEPT !.result = result, !.handler = done.handler]]

\* The send in flight of dispatch d resolves (to true or to false) and it is
\* not the last one: the awaited value is dropped and the next send is issued.
SendResolved(d, value) ==
  /\ d \in 1..Len(dispatches)
  /\ LET f == dispatches[d]
     IN  /\ f.handler = "awaiting"
         /\ f.inflight # {}
         /\ f.pc < Len(Plan(f))
         /\ dispatches' = [dispatches EXCEPT ![d] =
              [f EXCEPT !.pc = f.pc + 1,
                        !.inflight = {f.pc + 1},
                        !.sent = Append(f.sent, Plan(f)[f.pc + 1]),
                        !.allTrue = f.allTrue /\ value]]
  /\ UNCHANGED predictionVars
  /\ UNCHANGED alertVars
  /\ UNCHANGED << clock, regionName, isLoading, notificationHistory >>

\* The last send of dispatch d resolves: the service function returns true.
LastSendResolved(d, value) ==
  /\ d \in 1..Len(dispatches)
  /\ LET f == dispatches[d]
     IN  /\ f.handler = "awaiting"
         /\ f.inflight # {}
         /\ f.pc = Len(Plan(f))
         /\ Complete(d, [f EXCEPT !.inflight = {},
                                  !.allTrue = f.allTrue /\ value],
                     ServiceResult(FALSE))
  /\ UNCHANGED predictionVars
  /\ UNCHANGED alertVars
  /\ UNCHANGED << clock, regionName >>

\* Variant: a send that rejects is issued again.
SendThrew_Retry(d) ==
  /\ d \in 1..Len(dispatches)
  /\ LET f == dispatches[d]
     IN  /\ f.handler = "awaiting"
         /\ f.inflight # {}
         /\ dispatches' = [dispatches EXCEPT ![d] =
              [f EXCEPT !.sent = Append(f.sent, Plan(f)[f.pc])]]
  /\ UNCHANGED predictionVars
  /\ UNCHANGED alertVars
  /\ UNCHANGED << clock, regionName, isLoading, notificationHistory >>

\* Variant: a send that rejects is noted and the loop goes on.
SendThrew_Continue(d) ==
  /\ d \in 1..Len(dispatches)
  /\ LET f == dispatches[d]
     IN  /\ f.handler = "awaiting"
         /\ f.inflight # {}
         /\ ~f.threw
         /\ dispatches' = [dispatches EXCEPT ![d] = [f EXCEPT !.threw = TRUE]]
  /\ UNCHANGED predictionVars
  /\ UNCHANGED alertVars
  /\ UNCHANGED << clock, regionName, isLoading, notificationHistory >>

\* The send in flight of dispatch d rejects: the catch block of the service
\* function returns false, and no further send is issued.
SendThrew(d) ==
  /\ d \in 1..Len(dispatches)
  /\ LET f == dispatches[d]
     IN  /\ f.handler = "awaiting"
         /\ f.inflight # {}
         /\ Complete(d, [f EXCEPT !.inflight = {}, !.threw = TRUE],
                     ServiceResult(TRUE))
  /\ UNCHANGED predictionVars
  /\ UNCHANGED alertVars
  /\ UNCHANGED << clock, regionName >>

Next ==
  \/ Tick
  \/ \E action \in Actions : Trigger(action)
  \/ \E d \in 1..MaxDispatches, value \in BOOLEAN : SendResolved(d, value)
  \/ \E d \in 1..MaxDispatches, value \in BOOLEAN : LastSendResolved(d, value)
  \/ \E d \in 1..MaxDispatches : SendThrew(d)

Spec == Init /\ [][Next]_vars

\* The send in flight of dispatch d settles, one way or the other.
Settle(d) ==
  \/ \E value \in BOOLEAN : SendResolved(d, value)
  \/ \E value \in BOOLEAN : LastSendResolved(d, value)
  \/ SendThrew(d)

\* Every send that is in flight settles in the end (the senders of the
\* repository resolve after 500 ms); nothing obliges the user to click.
FairSpec == Spec /\ \A d \in 1..MaxDispatches : WF_vars(Settle(d))

\* The dispatcher together with edits of the region input.
RegionSpec ==
  Init /\ [][Next \/ \E value \in Regions : SetRegionName(value)]_vars

(***************************************************************************)
(* JavaScript numbers.  A number is an IEEE-754 double: a positive double  *)
(* is [m, e] with value m * 2^e and 2^52 <= m < 2^53.  The mantissa is a   *)
(* sequence of 13-bit limbs, least significant first, so that no           *)
(* intermediate value leaves the 32-bit integers.  Every operation rounds  *)
(* its exact result to the nearest double, ties to the even mantissa.      *)
(***************************************************************************)
Base == 2^13

RECURSIVE Limbs(_)
\* The limbs of the natural number n.
Limbs(n) == IF n = 0 THEN << >> ELSE << n % Base >> \o Limbs(n \div Base)

RECURSIVE ToInt(_)
ToInt(a) == IF a = << >> THEN 0 ELSE a[1] + Base * ToInt(Tail(a))

LimbAt(a, i) == IF i \in 1..Len(a) THEN a[i] ELSE 0

RECURSIVE Trim(_)
\* Without the zero limbs at the most significant end.
Trim(a) ==
  IF a = << >> \/ a[Len(a)] # 0 THEN a ELSE Trim(SubSeq(a, 1, Len(a) - 1))

RECURSIVE IntBits(_)
IntBits(n) == IF n = 0 THEN 0 ELSE 1 + IntBits(n \div 2)

\* Number of significant bits.
BitLen(a) ==
  LET t == Trim(a)
  IN  IF t = << >> THEN 0 ELSE 13 * (Len(t) - 1) + IntBits(t[Len(t)])

\* Bit i (from 0) of a.
Bit(a, i) == (LimbAt(a, i \div 13 + 1) \div 2^(i % 13)) % 2

\* Some bit below bit s is set.
AnyBitBelow(a, s) ==
  \/ \E i \in 1..Len(a) : i <= s \div 13 /\ a[i] # 0
  \/ LimbAt(a, s \div 13 + 1) % 2^(s % 13) # 0

\* floor(a / 2^s)
ShiftRight(a, s) ==
  LET w == s \div 13
      b == s % 13
      n == Len(a) - w
  IN  IF n <= 0
      THEN << >>
      ELSE [i \in 1..n |->
              (a[i + w] \div 2^b) + (LimbAt(a, i + w + 1) % 2^b) * 2^(13 - b)]

RECURSIVE AddSmall(_, _)
\* a + c for a small c.
AddSmall(a, c) ==
  IF c = 0 THEN a
  ELSE IF a = << >> THEN Limbs(c)
  ELSE << (a[1] + c) % Base >> \o AddSmall(Tail(a), (a[1] + c) \div Base)

RECURSIVE AddLimbs(_, _, _)
\* a + b + carry
AddLimbs(a, b, carry) ==
  IF a = << >> THEN AddSmall(b, carry)
  ELSE IF b = << >> THEN AddSmall(a, carry)
  ELSE LET t == a[1] + b[1] + carry
       IN  << t % Base >> \o AddLimbs(Tail(a), Tail(b), t \div Base)

RECURSIVE MulSmall(_, _, _)
\* a * k + carry for a limb k.
MulSmall(a, k, carry) ==
  IF a = << >> THEN Limbs(carry)
  ELSE LET t == a[1] * k + carry
       IN  << t % Base >> \o MulSmall(Tail(a), k, t \div Base)

RECURSIVE MulLimbs(_, _)
\* a * b
MulLimbs(a, b) ==
  IF a = << >> THEN << >>
  ELSE AddLimbs(MulSmall(b, a[1], 0), << 0 >> \o MulLimbs(Tail(a), b), 0)

RECURSIVE DivStep(_, _, _, _)
\* Long division of the limbs 1..i of a, after remainder r of the limbs
\* above them, by the small number d: quotient limbs and remainder.
DivStep(a, d, i, r) ==
  IF i = 0 THEN [q |-> << >>, r |-> r]
  ELSE LET cur == r * Base + a[i]
           rest == DivStep(a, d, i - 1, cur % d)
       IN  [q |-> rest.q \o << cur \div d >>, r |-> rest.r]

\* The double nearest to (a + f) * 2^e, where 0 <= f < 1 and f > 0 exactly
\* when sticky; a has at least 54 significant bits unless f = 0.
RoundToDouble(a, sticky, e) ==
  LET s == BitLen(a) - 53
      q == Trim(ShiftRight(a, s))
      guard == IF s > 0 THEN Bit(a, s - 1) ELSE 0
      rest == sticky \/ (s > 1 /\ AnyBitBelow(a, s - 1))
      up == guard = 1 /\ (rest \/ q[1] % 2 = 1)
      r == IF up THEN AddSmall(q, 1) ELSE q
  IN  IF BitLen(r) = 54
      THEN [m |-> Trim(ShiftRight(r, 1)), e |-> e + s + 1]
      ELSE [m |-> r, e |-> e + s]

\* x / d for a double x and a small positive integer d.
FDivSmall(x, d) ==
  LET a == << 0, 0, 0, 0, 0 >> \o x.m
      dv == DivStep(a, d, Len(a), 0)
  IN  RoundToDouble(dv.q, dv.r # 0, x.e - 65)

\* The double that the decimal literal or text n/d denotes (n > 0).
ToDouble(v) ==
  FDivSmall([m |-> << 0, 0, 0, 0, 0 >> \o Limbs(v.num), e |-> -65], v.den)

\* x * y
FMul(x, y) == RoundToDouble(MulLimbs(x.m, y.m), FALSE, x.e + y.e)

\* Variant: rounds half down.
MathRound_HalfDown(x) ==
  LET t == 0 - x.e
  IN  ToInt(ShiftRight(x.m, t))
      + (IF Bit(x.m, t - 1) = 1 /\ AnyBitBelow(x.m, t - 1) THEN 1 ELSE 0)

\* Math.round(x) for a positive x below 2^31: floor(x + 1/2).
MathRound(x) ==
  LET t == 0 - x.e
  IN  ToInt(ShiftRight(x.m, t)) + Bit(x.m, t - 1)

\* floor(x) for a positive x below 2^31, and whether x is an integer.
Floor(x) == ToInt(ShiftRight(x.m, 0 - x.e))
IsInteger(x) == ~AnyBitBelow(x.m, 0 - x.e)

\* x >= k and x <= k for a double x and an integer k.
FGe(x, k) == Floor(x) >= k
FLe(x, k) == Floor(x) < k \/ (Floor(x) = k /\ IsInteger(x))

(***************************************************************************)
(* The resource prediction: generateResourcePrediction.                    *)
(***************************************************************************)
DisasterTypes == {"flood", "fire", "earthquake", "hurricane"}
Severities == {"low", "medium", "high", "critical"}
Quantities ==
  {"food", "water", "rescuers", "medicalStaff", "shelters", "capacity",
   "vehicles"}

\* The double denoted by the numeric literal n/d of the source.
Literal(n, d) == ToDouble(Num(n, d))

\* Base resources per 1000 people.
baseResources ==
  [food |-> Literal(3000, 1),
   water |-> Literal(5000, 1),
   rescuers |-> Literal(20, 1),
   medicalStaff |-> Literal(15, 1),
   shelters |-> Literal(3, 1),
   capacity |-> Literal(400, 1),
   vehicles |-> Literal(10, 1)]

\* Variant: 'high' scales less than 'medium'.
severityMultiplier_HighDips ==
  [low |-> Literal(7, 10),
   medium |-> Literal(10, 10),
   high |-> Literal(9, 10),
   critical |-> Literal(25, 10)]

severityMultiplier ==
  [low |-> Literal(7, 10),
   medium |-> Literal(10, 10),
   high |-> Literal(15, 10),
   critical |-> Literal(25, 10)]

\* One row of disasterAdjustments, in the order of the source.
Adjustments(food, water, rescuers, medicalStaff, shelters, capacity, vehicles) ==
  [food |-> Literal(food, 10),
   water |-> Literal(water, 10),
   rescuers |-> Literal(rescuers, 10),
   medicalStaff |-> Literal(medicalStaff, 10),
   shelters |-> Literal(shelters, 10),
   capacity |-> Literal(capacity, 10),
   vehicles |-> Literal(vehicles, 10)]

\* The factors are written in tenths: 12 stands for the literal 1.2.
disasterAdjustments ==
  [flood |-> Adjustments(12, 15, 13, 10, 12, 10, 15),
   fire |-> Adjustments(10, 13, 15, 12, 10, 10, 12),
   earthquake |-> Adjustments(13, 14, 20, 18, 15, 8, 13),
   hurricane |-> Adjustments(14, 13, 14, 13, 15, 9, 11)]

rescueTypes ==
  [flood |-> << "Boat Rescue Teams", "Swift Water Technicians",
                "Helicopter Rescue Units" >>,
   fire |-> << "Wildland Firefighters", "High-Rise Rescue Teams",
               "Hazmat Specialists" >>,
   earthquake |-> << "Urban Search & Rescue", "Heavy Extraction Teams",
                     "Structural Engineers", "Canine Units" >>,
   hurricane |-> << "Water Rescue Teams", "Airlift Units",
                    "Debris Removal Specialists" >>]

medicalEquipment ==
  [flood |-> << "Water Purification Systems", "Antibiotics",
                "Tetanus Vaccines", "Hypothermia Treatment Kits" >>,
   fire |-> << "Burn Treatment Units", "Respiratory Support",
               "Eye Wash Stations", "Smoke Inhalation Kits" >>,
   earthquake |-> << "Trauma Surgery Kits", "Crush Syndrome Treatment",
                     "Blood Supplies", "Orthopedic Equipment",
                     "Portable X-ray Machines" >>,
   hurricane |-> << "Field Hospital Units", "Wound Care Supplies",
                    "Tetanus Vaccines", "IV Fluids" >>]

vehicleTypes ==
  [flood |-> << "Amphibious Vehicles", "High-Clearance Trucks",
                "Rescue Boats", "Helicopters" >>,
   fire |-> << "Fire Engines", "Water Tankers", "Aerial Ladder Trucks",
               "Command Vehicles" >>,
   earthquake |-> << "Heavy Excavators", "Search & Rescue Trucks",
                     "Medical Transport Vehicles",
                     "Debris Removal Equipment" >>,
   hurricane |-> << "High-Water Vehicles", "Debris Clearance Trucks",
                    "Evacuation Buses", "Supply Transport" >>]

\* Variant: 'high' and 'critical' exchanged.
severityIndexMap_Exchanged ==
  [low |-> 1, medium |-> 2, high |-> 4, critical |-> 3]

severityIndexMap == [low |-> 1, medium |-> 2, high |-> 3, critical |-> 4]

\* list.slice(0, end) for end >= 0: the first end entries, or the whole
\* list when it has fewer.
Slice(list, end) == SubSeq(list, 1, IF end < Len(list) THEN end ELSE Len(list))

\* Variant: (values.populationAffected + 1000) / 1000
populationScale_Offset(values) ==
  FDivSmall(ToDouble(Num(values.populationAffected.num
                           + 1000 * values.populationAffected.den,
                         values.populationAffected.den)),
            1000)

\* Variant: values.populationAffected * values.areaSize / 1000
populationScale_TimesArea(values) ==
  FDivSmall(FMul(ToDouble(values.populationAffected),
                 ToDouble(values.areaSize)),
            1000)

\* values.populationAffected / 1000
populationScale(values) == FDivSmall(ToDouble(values.populationAffected), 1000)

\* base * severityMultiplier[severity] * adjustment * factor, multiplied
\* from left to right, before rounding; the factor is populationScale.
Scaled(values, quantity, factor) ==
  FMul(FMul(FMul(baseResources[quantity],
                 severityMultiplier[values.severity]),
            disasterAdjustments[values.disasterType][quantity]),
       factor)

\* The result object handed to setPredictionResults.
generateResourcePrediction(values) ==
  LET scale == populationScale(values)
      severityIndex == severityIndexMap[values.severity]
  IN  [food |-> MathRound(Scaled(values, "food", scale)),
       water |-> MathRound(Scaled(values, "water", scale)),
       rescuers |-> MathRound(Scaled(values, "rescuers", scale)),
       medicalStaff |-> MathRound(Scaled(values, "medicalStaff", scale)),
       shelters |->
         MathRound(FMul(Scaled(values, "shelters", scale),
                        FDivSmall(ToDouble(values.areaSize), 100))),
       capacity |->
         MathRound(FMul(baseResources.capacity,
                        disasterAdjustments[values.disasterType].capacity)),
       vehicles |-> MathRound(Scaled(values, "vehicles", scale)),
       magnitude |-> values.magnitude,
       disasterType |-> values.disasterType,
       rescueType |-> Slice(rescueTypes[values.disasterType], severityIndex),
       medicalEquipment |->
         Slice(medicalEquipment[values.disasterType], severityIndex),
       vehicleTypes |-> Slice(vehicleTypes[values.disasterType], severityIndex)]

(***************************************************************************)
(* The prediction form: resourcePredictionSchema, the form fields,         *)
(* form.handleSubmit(onSubmit) and the Recalculate button.                 *)
(***************************************************************************)
\* z.coerce.number() applies Number(input): the empty text becomes 0.
Coerce(input) == IF input.kind = "empty" THEN Num(0, 1) ELSE input

\* z.coerce.number().min(lo).max(hi): Number(undefined) is NaN, which is
\* no number; 0 is below every lower limit of the schema.
NumberBetween(input, lo, hi) ==
  /\ input.kind # "undefined"
  /\ Coerce(input).num > 0
  /\ FGe(ToDouble(Coerce(input)), lo)
  /\ FLe(ToDouble(Coerce(input)), hi)

\* Variant: populationAffected without its upper limit.
resourcePredictionSchema_NoMax(input) ==
  /\ input.disasterType \in {"flood", "fire", "earthquake", "hurricane"}
  /\ input.severity \in {"low", "medium", "high", "critical"}
  /\ input.populationAffected.kind # "undefined"
  /\ Coerce(input.populationAffected).num > 0
  /\ FGe(ToDouble(Coerce(input.populationAffected)), 1)
  /\ NumberBetween(input.areaSize, 1, 100000)
  /\ input.magnitude.kind = "undefined" \/ NumberBetween(input.magnitude, 1, 10)

\* resourcePredictionSchema accepts the input.
resourcePredictionSchema(input) ==
  /\ input.disasterType \in {"flood", "fire", "earthquake", "hurricane"}
  /\ input.severity \in {"low", "medium", "high", "critical"}
  /\ NumberBetween(input.populationAffected, 1, 10000000)
  /\ NumberBetween(input.areaSize, 1, 100000)
  /\ input.magnitude.kind = "undefined" \/ NumberBetween(input.magnitude, 1, 10)

\* Variant: the magnitude loses its decimals.
ParsedValues_WholeMagnitude(input) ==
  [disasterType |-> input.disasterType,
   severity |-> input.severity,
   populationAffected |-> Coerce(input.populationAffected),
   areaSize |-> Coerce(input.areaSize),
   magnitude |->
     IF input.magnitude.kind = "number"
     THEN Num(input.magnitude.num \div input.magnitude.den, 1)
     ELSE Coerce(input.magnitude)]

\* The values the schema hands to onSubmit for an accepted input.
ParsedValues(input) ==
  [disasterType |-> input.disasterType,
   severity |-> input.severity,
   populationAffected |-> Coerce(input.populationAffected),
   areaSize |-> Coerce(input.areaSize),
   magnitude |-> Coerce(input.magnitude)]

\* What the fields are set to.  "tsunami" and "extreme" stand for values the
\* two selects do not offer and only the schema keeps out.
DisasterTypeInputs == DisasterTypes \cup {"tsunami"}
SeverityInputs == Severities \cup {"extreme"}
PopulationInputs ==
  {Num(n, 1) : n \in {0, 1, 18, 1000, 1250, 5000, 10000000, 10000001}}
    \cup {EmptyText}
AreaSizeInputs ==
  {Num(n, 1) : n \in {0, 1, 100, 200, 100000, 100001}}
    \cup {Num(5, 10), EmptyText}
MagnitudeInputs ==
  {Num(45, 10), Num(5, 1), Num(6, 1), Num(65, 10), Num(7, 1), Num(11, 1),
   EmptyText}

\* The form is rendered while no plan is on display.
FormShown == predictionResults = << >>

\* field.onChange of the disaster type select.
ChangeDisasterType(value) ==
  /\ FormShown
  /\ form' = [form EXCEPT !.disasterType = value]
  /\ UNCHANGED predictionResults
  /\ UNCHANGED dispatchVars
  /\ UNCHANGED alertVars

\* field.onChange of the severity select.
ChangeSeverity(value) ==
  /\ FormShown
  /\ form' = [form EXCEPT !.severity = value]
  /\ UNCHANGED predictionResults
  /\ UNCHANGED dispatchVars
  /\ UNCHANGED alertVars

\* field.onChange of the population input.
ChangePopulationAffected(value) ==
  /\ FormShown
  /\ form' = [form EXCEPT !.populationAffected = value]
  /\ UNCHANGED predictionResults
  /\ UNCHANGED dispatchVars
  /\ UNCHANGED alertVars

\* field.onChange of the area input.
ChangeAreaSize(value) ==
  /\ FormShown
  /\ form' = [form EXCEPT !.areaSize = value]
  /\ UNCHANGED predictionResults
  /\ UNCHANGED dispatchVars
  /\ UNCHANGED alertVars

\* field.onChange of the magnitude input, rendered for earthquakes only;
\* the value stays in the form when the disaster type changes afterwards.
ChangeMagnitude(value) ==
  /\ FormShown
  /\ form.disasterType = "earthquake"
  /\ form' = [form EXCEPT !.magnitude = value]
  /\ UNCHANGED predictionResults
  /\ UNCHANGED dispatchVars
  /\ UNCHANGED alertVars

\* Variant: the plan is computed from the default values of the form.
Submit_FromDefaults ==
  /\ FormShown
  /\ predictionResults' =
       IF resourcePredictionSchema(form)
       THEN << generateResourcePrediction(ParsedValues(defaultValues)) >>
       ELSE predictionResults
  /\ UNCHANGED form
  /\ UNCHANGED dispatchVars
  /\ UNCHANGED alertVars

\* form.handleSubmit(onSubmit): onSubmit, hence generateResourcePrediction and
\* its setPredictionResults(result), runs only for an input the schema accepts.
Submit ==
  /\ FormShown
  /\ predictionResults' =
       IF resourcePredictionSchema(form)
       THEN << generateResourcePrediction(ParsedValues(form)) >>
       ELSE predictionResults
  /\ UNCHANGED form
  /\ UNCHANGED dispatchVars
  /\ UNCHANGED alertVars

\* The Recalculate button: setPredictionResults(null).
Recalculate ==
  /\ ~FormShown
  /\ predictionResults' = << >>
  /\ UNCHANGED form
  /\ UNCHANGED dispatchVars
  /\ UNCHANGED alertVars

PredictionNext ==
  \/ \E value \in DisasterTypeInputs : ChangeDisasterType(value)
  \/ \E value \in SeverityInputs : ChangeSeverity(value)
  \/ \E value \in PopulationInputs : ChangePopulationAffected(value)
  \/ \E value \in AreaSizeInputs : ChangeAreaSize(value)
  \/ \E value \in MagnitudeInputs : ChangeMagnitude(value)
  \/ Submit
  \/ Recalculate

\* The resource prediction dialog on its own.
PredictionSpec == Init /\ [][PredictionNext]_vars

\* Variant: the limits 5, 6 and 7 belong to the lower band.
MagnitudeBanner_Strict(plan) ==
  IF /\ plan.magnitude.kind = "number" /\ plan.magnitude.num # 0
     /\ plan.disasterType = "earthquake"
  THEN IF ~FLe(ToDouble(plan.magnitude), 7) THEN "CRITICAL"
       ELSE IF ~FLe(ToDouble(plan.magnitude), 6) THEN "SEVERE"
       ELSE IF ~FLe(ToDouble(plan.magnitude), 5) THEN "MODERATE"
       ELSE "MINOR"
  ELSE "none"

\* The banner above the plan: rendered when predictionResults.magnitude is
\* truthy (a number other than 0) and the plan is for an earthquake; its text
\* begins with the band, "none" stands for no banner.
MagnitudeBanner(plan) ==
  IF /\ plan.magnitude.kind = "number" /\ plan.magnitude.num # 0
     /\ plan.disasterType = "earthquake"
  THEN IF FGe(ToDouble(plan.magnitude), 7) THEN "CRITICAL"
       ELSE IF FGe(ToDouble(plan.magnitude), 6) THEN "SEVERE"
       ELSE IF FGe(ToDouble(plan.magnitude), 5) THEN "MODERATE"
       ELSE "MINOR"
  ELSE "none"

(***************************************************************************)
(* The alert feed: AlertPanel.  A click is handled to its end, and the      *)
(* panel is rendered again, before the next click is handled, so that every *)
(* handler reads the alerts as they are.                                    *)
(***************************************************************************)
\* The lists a page may hand to the panel: alerts with distinct ids (they
\* are the keys of the rendered list), each read or not.
AlertLists ==
  {list \in UNION {[1..n -> {Alert(id, read) : id \in AlertIds,
                                               read \in BOOLEAN}] :
                     n \in 0..MaxAlerts} :
     \A i, j \in 1..Len(list) : i # j => list[i].id # list[j].id}

\* alerts.filter(alert => !alert.read).length
unreadCount(list) == Cardinality({i \in 1..Len(list) : ~list[i].read})

\* The panel is mounted with some list of alerts; the rest of the dashboard
\* is as it is at the start.
AlertInit ==
  /\ clock = ClockStart
  /\ regionName = "Downtown Metro Area"
  /\ isLoading = null
  /\ notificationHistory = << >>
  /\ dispatches = << >>
  /\ form = defaultValues
  /\ predictionResults = << >>
  /\ initialAlerts \in AlertLists
  /\ alerts = initialAlerts

\* Variant: a click on a read alert marks it unread.
markAsRead_Toggle(id) ==
  /\ \E i \in 1..Len(alerts) : alerts[i].id = id
  /\ alerts' = [i \in 1..Len(alerts) |->
                  IF alerts[i].id = id
                  THEN [alerts[i] EXCEPT !.read = ~alerts[i].read]
                  ELSE alerts[i]]
  /\ UNCHANGED initialAlerts
  /\ UNCHANGED dispatchVars
  /\ UNCHANGED predictionVars

\* A click on the alert with this id:
\* setAlerts(alerts.map(alert => alert.id === id ? {...alert, read: true} : alert))
markAsRead(id) ==
  /\ \E i \in 1..Len(alerts) : alerts[i].id = id
  /\ alerts' = [i \in 1..Len(alerts) |->
                  IF alerts[i].id = id
                  THEN [alerts[i] EXCEPT !.read = TRUE]
                  ELSE alerts[i]]
  /\ UNCHANGED initialAlerts
  /\ UNCHANGED dispatchVars
  /\ UNCHANGED predictionVars

\* The "Mark all read" button, rendered while some alert is unread:
\* setAlerts(alerts.map(alert => ({...alert, read: true})))
markAllAsRead ==
  /\ unreadCount(alerts) > 0
  /\ alerts' = [i \in 1..Len(alerts) |-> [alerts[i] EXCEPT !.read = TRUE]]
  /\ UNCHANGED initialAlerts
  /\ UNCHANGED dispatchVars
  /\ UNCHANGED predictionVars

AlertNext ==
  \/ \E id \in AlertIds : markAsRead(id)
  \/ markAllAsRead

\* The alert panel on its own.
AlertSpec == AlertInit /\ [][AlertNext]_vars

(***************************************************************************)
(* Vocabulary of the properties.                                           *)
(***************************************************************************)
\* The dispatches triggered so far, numbered in trigger order.
Dispatched == 1..Len(dispatches)

\* The record created by dispatch k: records are prepended, never removed.
RecordOf(k) == notificationHistory[Len(notificationHistory) - k + 1]

\* handleEmergencyAction of dispatch k has finished.
Finished(k) == dispatches[k].handler # "awaiting"

Terminal == {"success", "error"}

(***************************************************************************)
(* C1.  A dispatch resolves to success if and only if every send of the    *)
(* batch returned true: once a send has returned false (or thrown), the    *)
(* service function returns false and the record of the dispatch is        *)
(* 'error' when the dispatch finishes.                                     *)
(***************************************************************************)
C1_SuccessIffEverySendTrue ==
  \A k \in Dispatched :
    Finished(k) =>
      LET f == dispatches[k]
          everySendTrue == f.allTrue /\ ~f.threw
      IN  /\ (f.result = "true") <=> everySendTrue
          /\ ~everySendTrue =>
               f.result = "false" /\ RecordOf(k).status = "error"

(***************************************************************************)
(* C2.  A record is created 'pending', and once it is 'success' or 'error' *)
(* its status never changes again.                                         *)
(***************************************************************************)
C2_TerminalStatusIsFinal ==
  [][ /\ \A k \in Dispatched :
           RecordOf(k).status \in Terminal
             => RecordOf(k)'.status = RecordOf(k).status
      /\ \A k \in (1..Len(dispatches')) \ Dispatched :
           RecordOf(k)'.status = "pending" ]_vars

(***************************************************************************)
(* C3.  The terminal status written when dispatch d finishes changes only  *)
(* the record created by d, never the record of another dispatch.          *)
(***************************************************************************)
C3_FinishTouchesOwnRecordOnly ==
  [][ \A d \in Dispatched :
        (~Finished(d) /\ Finished(d)')
          => \A k \in Dispatched \ {d} :
               RecordOf(k)'.status = RecordOf(k).status ]_vars

(***************************************************************************)
(* C4.  The ids of the records of the session history are pairwise         *)
(* distinct.                                                               *)
(***************************************************************************)
C4_IdsPairwiseDistinct ==
  \A i, j \in 1..Len(notificationHistory) :
    i # j => notificationHistory[i].id # notificationHistory[j].id

(***************************************************************************)
(* The directory, as the properties speak of it.                           *)
(***************************************************************************)
\* The team of each action kind.
TeamOf(action) ==
  CASE action = "Evacuation"        -> evacuationTeam
    [] action = "Alert"             -> alertTeam
    [] action = "Resources Request" -> resourcesTeam
    [] action = "All Clear"         -> allClearTeam

\* The contacts of a team: its lead, then its members in declared order.
ContactsOf(team) == << team.teamHead >> \o team.members

\* The phone numbers and e-mail addresses of the contacts of a team.
HumanAddresses(team) ==
  UNION { {ContactsOf(team)[i].phoneNumber, ContactsOf(team)[i].email} :
            i \in 1..Len(ContactsOf(team)) }

\* The identifiers of the region devices.
DeviceIds == { regionDevices[i] : i \in 1..Len(regionDevices) }

\* The action kinds meant for region-wide reach.
RegionWide == {"Alert", "All Clear"}

\* The addresses dispatch k has sent to so far.
SentTo(k) == { dispatches[k].sent[i].to : i \in 1..Len(dispatches[k].sent) }

\* Dispatch k has finished and none of its sends threw.
FinishedWithoutThrow(k) == Finished(k) /\ ~dispatches[k].threw

(***************************************************************************)
(* C5.  A dispatch of kind K sends to humans of K's own team only, and to  *)
(* all of them when no send throws; it sends to region devices only if K   *)
(* is Alert or All Clear, and then to all of them when no send throws.     *)
(***************************************************************************)
C5_RecipientsAreOwnTeam ==
  \A k \in Dispatched :
    LET K == dispatches[k].action
        humans == SentTo(k) \ DeviceIds
        devices == SentTo(k) \cap DeviceIds
    IN  /\ humans \subseteq HumanAddresses(TeamOf(K))
        /\ K \notin RegionWide => devices = {}
        /\ FinishedWithoutThrow(k) =>
             /\ humans = HumanAddresses(TeamOf(K))
             /\ K \in RegionWide <=> devices # {}
             /\ K \in RegionWide => devices = DeviceIds

\* An Evacuation and a Resources Request have run to the end, and so has an
\* Alert or All Clear that reached the devices.
C5_Witness ==
  /\ \E k \in Dispatched :
       /\ FinishedWithoutThrow(k)
       /\ dispatches[k].action = "Evacuation"
       /\ SentTo(k) = HumanAddresses(evacuationTeam)
  /\ \E k \in Dispatched :
       /\ FinishedWithoutThrow(k)
       /\ dispatches[k].action = "All Clear"
       /\ DeviceIds \subseteq SentTo(k)

(***************************************************************************)
(* C6.  When no send throws, a dispatch of Alert or All Clear issues one   *)
(* SMS and one Email per contact of its team, 2 x (1 + |members|) sends to *)
(* humans, and one send per region device, an SMS if the identifier starts *)
(* with "+" and a Push otherwise: 6 + 2 + 1 = 9 sends with the default     *)
(* directory.                                                              *)
(***************************************************************************)
\* The positions of the send log of dispatch k that satisfy Test.
Sends(k, Test(_)) ==
  { i \in 1..Len(dispatches[k].sent) : Test(dispatches[k].sent[i]) }

C6_RegionWideSendCount ==
  \A k \in Dispatched :
    (FinishedWithoutThrow(k) /\ dispatches[k].action \in RegionWide) =>
      LET team == TeamOf(dispatches[k].action)
          contacts == ContactsOf(team)
          ToHuman(m) == m.to \notin DeviceIds
          SmsToDevice(m) == m.to \in DeviceIds /\ m.channel = "SMS"
          PushToDevice(m) == m.to \in DeviceIds /\ m.channel = "Push"
      IN  /\ \A c \in 1..Len(contacts) :
               LET Sms(m) == m.channel = "SMS" /\ m.to = contacts[c].phoneNumber
                   Mail(m) == m.channel = "Email" /\ m.to = contacts[c].email
               IN  /\ Cardinality(Sends(k, Sms)) = 1
                   /\ Cardinality(Sends(k, Mail)) = 1
          /\ Cardinality(Sends(k, ToHuman)) = 2 * (1 + Len(team.members))
          /\ \A v \in 1..Len(regionDevices) :
               LET To(m) == m.to = regionDevices[v]
                   Right(m) ==
                     /\ m.to = regionDevices[v]
                     /\ m.channel = IF regionDevices[v][1] = "+" THEN "SMS" ELSE "Push"
               IN  /\ Cardinality(Sends(k, To)) = 1
                   /\ Cardinality(Sends(k, Right)) = 1
          /\ Len(dispatches[k].sent) =
               2 * (1 + Len(team.members)) + Len(regionDevices)
          /\ Cardinality(Sends(k, ToHuman)) = 6
          /\ Cardinality(Sends(k, SmsToDevice)) = 2
          /\ Cardinality(Sends(k, PushToDevice)) = 1
          /\ Len(dispatches[k].sent) = 9

\* An Alert and an All Clear have both run to the end without a throw.
C6_Witness ==
  /\ \E k \in Dispatched :
       FinishedWithoutThrow(k) /\ dispatches[k].action = "Alert"
  /\ \E k \in Dispatched :
       FinishedWithoutThrow(k) /\ dispatches[k].action = "All Clear"

(***************************************************************************)
(* C7.  The sends of one dispatch are sequential and ordered: at most one  *)
(* is in flight, and it is the one issued last; the log goes through the   *)
(* contacts lead first, then the members in declared order, SMS before     *)
(* Email for each; the region devices follow, in directory order, only     *)
(* after all the contacts.                                                 *)
(***************************************************************************)
C7_SequentialOrderedSends ==
  \A k \in Dispatched :
    LET f == dispatches[k]
        contacts == ContactsOf(TeamOf(f.action))
        n == Len(contacts)
    IN  /\ Cardinality(f.inflight) <= 1
        /\ f.inflight \subseteq {Len(f.sent)}
        /\ \A i \in 1..Len(f.sent) :
             IF i <= 2 * n
             THEN IF i % 2 = 1
                  THEN /\ f.sent[i].channel = "SMS"
                       /\ f.sent[i].to = contacts[(i + 1) \div 2].phoneNumber
                  ELSE /\ f.sent[i].channel = "Email"
                       /\ f.sent[i].to = contacts[i \div 2].email
             ELSE /\ f.action \in RegionWide
                  /\ i - 2 * n <= Len(regionDevices)
                  /\ f.sent[i].to = regionDevices[i - 2 * n]

\* The last region device of an Alert is being sent to, after everyone else,
\* while another dispatch has a send in flight too.
C7_Witness ==
  \E k, j \in Dispatched :
    /\ k # j
    /\ dispatches[k].action = "Alert"
    /\ Len(dispatches[k].sent) = 9
    /\ dispatches[k].inflight = {9}
    /\ dispatches[j].inflight # {}
    /\ Len(dispatches[j].sent) > 2

(***************************************************************************)
(* C8.  When a send of dispatch d has thrown, the service function has     *)
(* returned false instead of throwing, handleEmergencyAction has returned  *)
(* normally, and the record of d ends in status 'error': it is 'error'     *)
(* from the moment the dispatch finishes and stays so.                     *)
(***************************************************************************)
C8_ThrowEndsInError ==
  \A d \in Dispatched :
    (Finished(d) /\ dispatches[d].threw) =>
      /\ dispatches[d].result = "false"
      /\ dispatches[d].handler = "returned"
      /\ RecordOf(d).status = "error"

(***************************************************************************)
(* C9.  Provided every send settles, every record that is 'pending'        *)
(* becomes 'success' or 'error' in the end, whatever else is triggered.    *)
(***************************************************************************)
C9_PendingEventuallyTerminal ==
  \A k \in 1..MaxDispatches :
    (k \in Dispatched /\ RecordOf(k).status = "pending")
      ~> (k \in Dispatched /\ RecordOf(k).status \in Terminal)

\* A dispatch has sent to its whole team and finished, its record terminal,
\* while a dispatch triggered after it is still under way.
C9_Witness ==
  \E k, j \in Dispatched :
    /\ k < j
    /\ Finished(k) /\ Len(dispatches[k].sent) >= 6
    /\ RecordOf(k).status \in Terminal
    /\ ~Finished(j) /\ RecordOf(j).status = "pending"

(***************************************************************************)
(* C10.  The dispatcher never retries: within one dispatch no (recipient,  *)
(* channel) pair is sent to twice; a dispatch that has finished with its   *)
(* record 'error' issues no further send; and the history holds one record *)
(* per triggered action.                                                   *)
(***************************************************************************)
NoPairSentTwice(f) ==
  \A i, j \in 1..Len(f.sent) :
    (f.sent[i].to = f.sent[j].to /\ f.sent[i].channel = f.sent[j].channel)
      => i = j

C10_NoRetry ==
  [][ /\ \A k \in 1..Len(dispatches') : NoPairSentTwice(dispatches'[k])
      /\ Len(notificationHistory') = Len(dispatches')
      /\ \A k \in Dispatched :
           (Finished(k) /\ RecordOf(k).status = "error") =>
             /\ dispatches'[k].sent = dispatches[k].sent
             /\ dispatches'[k].inflight = {} ]_vars

\* A dispatch has failed part of the way, and a later action made a record
\* of its own.
C10_Witness ==
  \E k, j \in Dispatched :
    /\ k < j
    /\ Finished(k) /\ dispatches[k].threw
    /\ RecordOf(k).status = "error"
    /\ Len(dispatches[k].sent) >= 2
    /\ Len(dispatches[k].sent) < Len(Plan(dispatches[k]))
    /\ Len(dispatches[j].sent) >= 2

(***************************************************************************)
(* C11.  The pending record of a dispatch is in the history by the time    *)
(* its first send is issued, and the record carries a terminal status only *)
(* once the last send of that dispatch has settled or one has thrown.      *)
(***************************************************************************)
C11_RecordBracketsTheSends ==
  \A k \in Dispatched :
    LET f == dispatches[k]
    IN  /\ Len(f.sent) >= 1 => k <= Len(notificationHistory)
        /\ RecordOf(k).status \in Terminal =>
             /\ f.inflight = {}
             /\ Len(f.sent) = Len(Plan(f)) \/ f.threw

(***************************************************************************)
(* C12.  The history lists the records in reverse order of dispatch start: *)
(* a new record goes to the front, no record is removed or moved, and a    *)
(* status update keeps every record in its place.                          *)
(***************************************************************************)
SameButStatus(m, n) ==
  /\ m.id = n.id
  /\ m.action = n.action
  /\ m.recipients = n.recipients
  /\ m.timestamp = n.timestamp

C12_NewestFirst ==
  [][ LET old == Len(notificationHistory)
          new == Len(notificationHistory')
      IN  /\ new \in {old, old + 1}
          /\ \A i \in 1..old :
               SameButStatus(notificationHistory'[i + new - old],
                             notificationHistory[i])
          /\ new = Len(dispatches')
          /\ \A k \in 1..new :
               /\ notificationHistory'[new - k + 1].action = dispatches'[k].action
               /\ notificationHistory'[new - k + 1].id = dispatches'[k].notificationId
     ]_vars

\* Two records of different actions and different ids, the newer in front,
\* the older one with its status written after the newer was added.
C12_Witness ==
  /\ Len(notificationHistory) = 2
  /\ notificationHistory[1].action # notificationHistory[2].action
  /\ notificationHistory[1].id # notificationHistory[2].id
  /\ notificationHistory[1].id = dispatches[2].notificationId
  /\ notificationHistory[2].status \in Terminal
  /\ notificationHistory[1].status = "pending"
  /\ Len(dispatches[1].sent) >= 6

(***************************************************************************)
(* Vocabulary of the properties of the resource prediction.                *)
(***************************************************************************)
\* A plan is on display; the form keeps the values it was computed from.
PlanShown == predictionResults # << >>
Shown == predictionResults[1]
Submitted == ParsedValues(form)

\* The severities from the mildest to the gravest.
SeverityScale == << "low", "medium", "high", "critical" >>
Rank(severity) == CHOOSE i \in 1..4 : SeverityScale[i] = severity

\* The plan for the submitted scenario at another severity, population or
\* area.
AtSeverity(severity) ==
  generateResourcePrediction([Submitted EXCEPT !.severity = severity])
Twice(v) == Num(2 * v.num, v.den)
PopulationDoubled == [form EXCEPT !.populationAffected = Twice(Submitted.populationAffected)]
AreaDoubled == [form EXCEPT !.areaSize = Twice(Submitted.areaSize)]

Lists == {"rescueType", "medicalEquipment", "vehicleTypes"}
IsPrefix(a, b) == Len(a) <= Len(b) /\ SubSeq(b, 1, Len(a)) = a
Within1(a, b) == a - b \in {-1, 0, 1}

(***************************************************************************)
(* C13.  For an earthquake of high severity with 5000 people affected on   *)
(* 200 km2 the plan has 300 rescuers, 320 places per shelter and 68        *)
(* shelters (67.5 rounded half up).                                        *)
(***************************************************************************)
C13_Scenario ==
  /\ PlanShown
  /\ Submitted.disasterType = "earthquake"
  /\ Submitted.severity = "high"
  /\ Submitted.populationAffected = Num(5000, 1)
  /\ Submitted.areaSize = Num(200, 1)

C13_EarthquakeHighPlan ==
  C13_Scenario =>
    /\ Shown.rescuers = 300
    /\ Shown.capacity = 320
    /\ Shown.shelters = 68

C13_Witness == C13_Scenario /\ Shown.shelters = 68

(***************************************************************************)
(* C14.  For every disaster type the lists of rescue teams, medical        *)
(* equipment and vehicle types have exactly 1 entry at low, 2 at medium,   *)
(* 3 at high and 4 at critical severity.                                   *)
(***************************************************************************)
C14_ListLengthIsSeverityRank ==
  PlanShown =>
    \A list \in Lists : Len(Shown[list]) = Rank(Submitted.severity)

(***************************************************************************)
(* C15.  For every disaster type, every list and every two severities      *)
(* s < s', the list at s' has the entries of the list at s in the same     *)
(* places and at least one more.                                           *)
(***************************************************************************)
C15_StrictlyMoreWhenGraver ==
  PlanShown =>
    \A severity \in Severities :
      Rank(severity) > Rank(Submitted.severity) =>
        \A list \in Lists :
          /\ IsPrefix(Shown[list], AtSeverity(severity)[list])
          /\ Len(AtSeverity(severity)[list]) > Len(Shown[list])

(***************************************************************************)
(* C16.  Raising the severity by one step never shortens any of the three  *)
(* lists: the list before is a prefix of the list after.                   *)
(***************************************************************************)
C16_OneStepKeepsPrefix ==
  PlanShown =>
    \A severity \in Severities :
      Rank(severity) = Rank(Submitted.severity) + 1 =>
        \A list \in Lists : IsPrefix(Shown[list], AtSeverity(severity)[list])

\* A plan at 'high' for a type whose rescue catalog has three entries: the
\* step to 'critical' keeps the rescue list and extends the vehicle list.
C16_Witness ==
  /\ PlanShown
  /\ Submitted.severity = "high"
  /\ Len(Shown.rescueType) = 3
  /\ Len(AtSeverity("critical").rescueType) = 3
  /\ Len(AtSeverity("critical").vehicleTypes) = 4

(***************************************************************************)
(* C17.  Raising the severity never decreases the rounded food, water,     *)
(* rescuers, medical staff and vehicles, whatever the valid scenario.      *)
(***************************************************************************)
C17_GraverNeverLess ==
  PlanShown =>
    \A severity \in Severities :
      Rank(severity) > Rank(Submitted.severity) =>
        \A q \in {"food", "water", "rescuers", "medicalStaff", "vehicles"} :
          AtSeverity(severity)[q] >= Shown[q]

\* A plan at 'low' of which one quantity stays the same at 'medium' and
\* another grows.
C17_Witness ==
  /\ PlanShown
  /\ Submitted.severity = "low"
  /\ AtSeverity("medium").rescuers = Shown.rescuers
  /\ AtSeverity("medium").food > Shown.food

(***************************************************************************)
(* C18.  Doubling the population doubles food, water, rescuers, medical    *)
(* staff, shelters and vehicles up to rounding (the result for 2p is       *)
(* within 1 of twice the result for p) and leaves the capacity unchanged.  *)
(***************************************************************************)
C18_PopulationDoubling ==
  (PlanShown /\ resourcePredictionSchema(PopulationDoubled)) =>
    LET doubled == generateResourcePrediction(ParsedValues(PopulationDoubled))
    IN  /\ \A q \in Quantities \ {"capacity"} :
             Within1(doubled[q], 2 * Shown[q])
        /\ doubled.capacity = Shown.capacity

\* A scenario where the doubled plan is off twice the plan by the rounding.
C18_Witness ==
  /\ PlanShown
  /\ resourcePredictionSchema(PopulationDoubled)
  /\ Shown.food > 0
  /\ LET doubled == generateResourcePrediction(ParsedValues(PopulationDoubled))
     IN  \E q \in Quantities : doubled[q] # 2 * Shown[q]

(***************************************************************************)
(* C19.  Doubling the area doubles the shelters up to rounding (within 1)  *)
(* and leaves food, water, rescuers, medical staff, capacity, vehicles and *)
(* the three lists unchanged.                                              *)
(***************************************************************************)
C19_AreaDoubling ==
  (PlanShown /\ resourcePredictionSchema(AreaDoubled)) =>
    LET doubled == generateResourcePrediction(ParsedValues(AreaDoubled))
    IN  /\ Within1(doubled.shelters, 2 * Shown.shelters)
        /\ \A q \in (Quantities \ {"shelters"}) \cup Lists :
             doubled[q] = Shown[q]

\* A scenario with shelters to double.
C19_Witness ==
  /\ PlanShown
  /\ resourcePredictionSchema(AreaDoubled)
  /\ Shown.shelters > 0
  /\ generateResourcePrediction(ParsedValues(AreaDoubled)).shelters
       > Shown.shelters

(***************************************************************************)
(* C20.  A submission with a population of 0 or above 10,000,000, an area  *)
(* of 0 or above 100,000, or a disaster type or severity outside the four  *)
(* allowed values is rejected before anything is computed:                 *)
(* generateResourcePrediction does not run and predictionResults stays as  *)
(* it is.                                                                  *)
(***************************************************************************)
IsZero(input) == input.kind = "empty" \/ input.num = 0
Above(input, limit) == input.num > limit * input.den

C20_OutOfRange ==
  \/ IsZero(form.populationAffected)
  \/ Above(form.populationAffected, 10000000)
  \/ IsZero(form.areaSize)
  \/ Above(form.areaSize, 100000)
  \/ form.disasterType \notin DisasterTypes
  \/ form.severity \notin Severities

C20_InvalidIsRejected ==
  [][ C20_OutOfRange =>
        /\ predictionResults = << >>
        /\ predictionResults' = << >> ]_vars

\* The form is open on a population above the limit, everything else valid,
\* and the submit button is there: pressing it leaves no plan.
C20_Witness ==
  /\ FormShown
  /\ Above(form.populationAffected, 10000000)
  /\ ~IsZero(form.areaSize) /\ ~Above(form.areaSize, 100000)
  /\ form.disasterType \in DisasterTypes
  /\ form.severity \in Severities
  /\ form.magnitude = undefined

(***************************************************************************)
(* C21.  The estimate is total over the documented domain: every scenario  *)
(* with an allowed disaster type and severity, a population that is a      *)
(* positive integer up to 10,000,000 and an area that is any positive      *)
(* number up to 100,000, also one strictly between 0 and 1, passes         *)
(* validation and produces a plan.                                         *)
(***************************************************************************)
C21_InDocumentedDomain ==
  /\ form.disasterType \in DisasterTypes
  /\ form.severity \in Severities
  /\ form.populationAffected.kind = "number"
  /\ form.populationAffected.den = 1
  /\ form.populationAffected.num \in 1..10000000
  /\ form.areaSize.kind = "number"
  /\ form.areaSize.num > 0
  /\ form.areaSize.num <= 100000 * form.areaSize.den
  /\ \/ form.magnitude = undefined
     \/ /\ form.magnitude.kind = "number"
        /\ form.magnitude.num >= form.magnitude.den
        /\ form.magnitude.num <= 10 * form.magnitude.den

C21_DomainIsAccepted ==
  (FormShown /\ C21_InDocumentedDomain) =>
    /\ resourcePredictionSchema(form)
    /\ generateResourcePrediction(ParsedValues(form)).capacity > 0

(***************************************************************************)
(* C22.  The magnitude influences no computed quantity: scenarios that     *)
(* differ only in the magnitude (a value in [1,10] or none) have the same  *)
(* seven quantities and the same three lists, and the plan carries the     *)
(* submitted magnitude unchanged.                                          *)
(***************************************************************************)
C22_Magnitudes == {undefined, Num(1, 1), Num(65, 10), Num(10, 1)}

C22_MagnitudeHasNoInfluence ==
  PlanShown =>
    /\ Shown.magnitude = form.magnitude
    /\ \A m \in C22_Magnitudes :
         LET other ==
               generateResourcePrediction([Submitted EXCEPT !.magnitude = m])
         IN  \A q \in Quantities \cup Lists : other[q] = Shown[q]

\* A plan that carries a magnitude with decimals.
C22_Witness ==
  /\ PlanShown
  /\ Shown.magnitude = Num(65, 10)
  /\ Shown.disasterType = "earthquake"
  /\ Shown.rescuers > 0

(***************************************************************************)
(* C23.  The magnitude banner is shown only for a plan of an earthquake    *)
(* with a magnitude, and its band is minor below 5, moderate from 5 to     *)
(* below 6, severe from 6 to below 7, critical from 7: the limits belong   *)
(* to the higher band.                                                     *)
(***************************************************************************)
C23_AtLeast(m, k) == m.num >= k * m.den

C23_BannerBands ==
  PlanShown =>
    LET m == Shown.magnitude
        banner == MagnitudeBanner(Shown)
    IN  /\ banner # "none" <=>
             (Shown.disasterType = "earthquake" /\ m # undefined)
        /\ banner = "MINOR" => ~C23_AtLeast(m, 5)
        /\ banner = "MODERATE" => C23_AtLeast(m, 5) /\ ~C23_AtLeast(m, 6)
        /\ banner = "SEVERE" => C23_AtLeast(m, 6) /\ ~C23_AtLeast(m, 7)
        /\ banner = "CRITICAL" => C23_AtLeast(m, 7)

\* An earthquake plan whose magnitude is the lower limit of a band.
C23_Witness ==
  /\ PlanShown
  /\ Shown.disasterType = "earthquake"
  /\ Shown.magnitude = Num(6, 1)
  /\ MagnitudeBanner(Shown) = "SEVERE"

(***************************************************************************)
(* C24.  After any submissions and Recalculate clicks the held plan is     *)
(* absent or is exactly the complete result computed from the most recent  *)
(* accepted submission: no field survives from an earlier plan.            *)
(***************************************************************************)
C24_PlanIsOfLastSubmission ==
  PlanShown =>
    /\ Len(predictionResults) = 1
    /\ resourcePredictionSchema(form)
    /\ Shown = generateResourcePrediction(ParsedValues(form))

\* A plan of a scenario other than the default one: it came after an edit,
\* and the default plan, if one was shown before, left nothing behind.
C24_Witness ==
  /\ PlanShown
  /\ form.disasterType = "earthquake"
  /\ form.severity = "critical"
  /\ form.populationAffected = Num(5000, 1)
  /\ Shown.disasterType = "earthquake"
  /\ Len(Shown.rescueType) = 4

(***************************************************************************)
(* C25.  While a dispatch of an action is in flight, its record pending,   *)
(* the button of that action is disabled and no second dispatch of the     *)
(* same action can start, also when another action is triggered in         *)
(* between.                                                                *)
(***************************************************************************)
\* disabled={isLoading === action}
ButtonDisabled(action) == isLoading = action

C25_InFlightButtonDisabled ==
  \A k \in Dispatched :
    (~Finished(k) /\ RecordOf(k).status = "pending") =>
      ButtonDisabled(dispatches[k].action)

(***************************************************************************)
(* C26.  isLoading is null only if no record of the history is pending:    *)
(* the indicator is never cleared while some dispatch is still running.    *)
(***************************************************************************)
C26_IdleOnlyWhenNothingPending ==
  isLoading = null =>
    \A i \in 1..Len(notificationHistory) :
      notificationHistory[i].status # "pending"

(***************************************************************************)
(* C27.  If a send of a dispatch throws, no later send of that dispatch is *)
(* issued: everything after the failing one in the send order is left      *)
(* uncontacted, and the sends issued before it are not undone.             *)
(***************************************************************************)
C27_NoSendAfterThrow ==
  [][ \A k \in Dispatched :
        LET f == dispatches[k]
            g == dispatches'[k]
        IN  /\ IsPrefix(f.sent, g.sent)
            /\ f.threw => g.sent = f.sent
            /\ (g.threw /\ ~f.threw) =>
                 /\ g.sent = f.sent
                 /\ g.inflight = {}
                 /\ g.sent = SubSeq(Plan(g), 1, g.pc)
     ]_vars

\* The first dispatch stopped at a throw in the middle of its plan, and the
\* second went on sending.
C27_Witness ==
  /\ Len(dispatches) = 2
  /\ dispatches[1].threw
  /\ Len(dispatches[1].sent) \in 2..(Len(Plan(dispatches[1])) - 1)
  /\ Len(dispatches[2].sent) >= 3

(***************************************************************************)
(* C28.  The terminal status update of a dispatch changes only the status: *)
(* id, action, recipients and timestamp of every record stay as they were  *)
(* at creation, and the update leaves length and order of the history      *)
(* unchanged.                                                              *)
(***************************************************************************)
C28_UpdateTouchesStatusOnly ==
  [][ /\ (\E k \in Dispatched :
            ~Finished(k) /\ dispatches'[k].handler # "awaiting") =>
           /\ Len(notificationHistory') = Len(notificationHistory)
           /\ \A i \in 1..Len(notificationHistory) :
                SameButStatus(notificationHistory'[i], notificationHistory[i])
      /\ \A k \in Dispatched :
           /\ RecordOf(k).id = dispatches[k].notificationId
           /\ RecordOf(k).action = dispatches[k].action
           /\ RecordOf(k).recipients = Recipients(dispatches[k].action)
           /\ RecordOf(k).timestamp = RecordOf(k)'.timestamp
     ]_vars

\* Two records with different ids: the older closed with success, the newer
\* with error.
C28_Witness ==
  /\ Len(notificationHistory) = 2
  /\ notificationHistory[1].id # notificationHistory[2].id
  /\ notificationHistory[2].status = "success"
  /\ notificationHistory[1].status = "error"

(***************************************************************************)
(* C29.  All sends of one dispatch carry the same message, built from the  *)
(* region name as it was when the action was triggered: a change of the    *)
(* region name while the dispatch is in flight does not change the message *)
(* of its remaining sends and only affects dispatches triggered later.     *)
(***************************************************************************)
C29_RegionCapturedAtTrigger ==
  [][ /\ \A k \in 1..Len(dispatches') :
           LET g == dispatches'[k]
           IN  /\ \A i, j \in 1..Len(g.sent) :
                    g.sent[i].message = g.sent[j].message
               /\ g.sent = SubSeq(ServiceCall(g.action, g.regionName), 1,
                                  Len(g.sent))
               /\ k \in Dispatched => g.regionName = dispatches[k].regionName
               /\ k \notin Dispatched => g.regionName = regionName
     ]_vars

\* The first dispatch was triggered under the initial region name and has
\* sent on; the region name is another now, and the second dispatch was
\* triggered under it.
C29_Witness ==
  /\ Len(dispatches) = 2
  /\ dispatches[1].regionName = "Downtown Metro Area"
  /\ dispatches[2].regionName = "Zone A"
  /\ regionName = "Zone A"
  /\ ~Finished(1)
  /\ Len(dispatches[1].sent) >= 3
  /\ dispatches[1].sent[3].message # dispatches[2].sent[1].message

(***************************************************************************)
(* C30.  In the alert feed an alert that has been read never becomes       *)
(* unread again, so the unread count never increases; markAsRead(id)       *)
(* changes no alert other than the one with that id; and no operation      *)
(* adds, removes or reorders alerts.                                       *)
(***************************************************************************)
C30_SameButRead(a, b) == [a EXCEPT !.read = b.read] = b

C30_ReadIsForGood ==
  [][ /\ Len(alerts') = Len(alerts)
      /\ Len(alerts) = Len(initialAlerts)
      /\ \A i \in 1..Len(alerts) :
           /\ C30_SameButRead(alerts'[i], alerts[i])
           /\ C30_SameButRead(alerts[i], initialAlerts[i])
           /\ alerts[i].read => alerts'[i].read
           /\ initialAlerts[i].read => alerts[i].read
      /\ unreadCount(alerts') <= unreadCount(alerts)
      /\ \A id \in AlertIds :
           markAsRead(id) =>
             \A i \in 1..Len(alerts) :
               alerts[i].id # id => alerts'[i] = alerts[i]
     ]_vars

\* Of three alerts one was marked as read by a click, one is still unread.
C30_Witness ==
  /\ Len(alerts) = 3
  /\ unreadCount(initialAlerts) = 3
  /\ unreadCount(alerts) = 1
  /\ alerts[2].read /\ ~alerts[1].read

=============================================================================
